---- MODULE Spec2Model ----
(***************************************************************************)
(* Model of src/main.py: the crash-game round loop (game_loop), the        *)
(* websocket fan-out (notify_all, websocket_endpoint) and the HTTP         *)
(* handlers (/topup_balance, /bet, /cashout) over the sqlite ledger.        *)
(*                                                                         *)
(* Concurrency is asyncio's: one thread, tasks interleave only at an       *)
(* await.  Every action below runs one task from the await it is           *)
(* suspended in to the next await it reaches.  A `await notify_all(..)`    *)
(* with an empty `connections` list reaches no await at all, so the game   *)
(* loop then runs on to its next sleep inside the same action.             *)
(*                                                                         *)
(* Each aiosqlite call sequence `execute(DML)... commit()` is one sqlite   *)
(* write transaction: the first DML takes the database write lock and the  *)
(* commit releases it, so it is one atomic step.  A SELECT runs outside    *)
(* any transaction and is its own step, separated from the following       *)
(* write by awaits.                                                        *)
(*                                                                         *)
(* Money is counted in hundredths: a multiplier 1.0 is 100, a balance of   *)
(* 100 units is 10000; the stake column `amount` is in whole units.        *)
(***************************************************************************)
EXTENDS Integers, Sequences, FiniteSets, TLC

\* ---------------------------------------------------------------- bounds
MaxRounds == 2
MaxTicks == 1
MaxTopups == 1
MaxWagers == 2
MaxFlightTicks == 3

\* ------------------------------------------------------ program constants
CountdownFrom == 10
StartMultiplier == 100
MinIncrement == 1
MaxIncrement == 5
Ceiling == 10000

Users == {"u1"}
Sessions == {"s1", "s2"}
LedgerSessions == {"s1"}
Reqs == {1, 2}
TopupAmounts == {100}
BetAmounts == {30}
RaceBetAmounts == {60}
AnyBetAmounts == {-30, 0, 30}

NoRow == -1
NoConn == ""

VARIABLES
    game_state,     \* the module-level dict: time_left, multiplier, is_running
    multiplier,     \* game_loop's local `multiplier`
    loop_pc,        \* where game_loop is suspended
    cont,           \* notify_all's return point inside game_loop
    data,           \* notify_all's argument (the event being fanned out)
    idx,            \* position of notify_all's list iterator in `connections`
    conn,           \* notify_all's loop variable: the socket being sent to
    to_remove,      \* notify_all's local list
    connections,    \* the module-level list of websockets
    sess,           \* websocket_endpoint's position, per session
    users,          \* table users: telegram_id -> balance (NoRow: no row)
    bets,           \* table bets, in rowid order
    req,            \* the HTTP request handlers in flight
    round,          \* history: number of the round in progress
    ticks,          \* history: Flight ticks of this round
    emitted,        \* history: events game_loop passed to notify_all this round
    targets,        \* history: `connections` when the current fan-out began
    got,            \* history: deliveries of the current event, per session
    failed,         \* history: sessions whose send failed in the current fan-out
    nwagers,        \* history: number of wagers ever inserted
    topups          \* history: number of /topup_balance requests served

loopVars == <<game_state, multiplier, loop_pc, cont, data, idx, conn, to_remove,
              connections, round, ticks, emitted, targets, got, failed>>
vars == <<game_state, multiplier, loop_pc, cont, data, idx, conn, to_remove,
          connections, sess, users, bets, req, round, ticks,
          emitted, targets, got, failed, nwagers, topups>>

\* ---------------------------------------------------------------- events
Event(t, v) == [type |-> t, value |-> v]
NoEvent == Event("none", 0)

\* ------------------------------------------------------------- game loop
\* The part of the state game_loop and notify_all read and write, as one
\* record, so that a run from one await to the next is a function on it.
LoopState == [game_state |-> game_state, multiplier |-> multiplier,
              loop_pc |-> loop_pc, cont |-> cont, data |-> data, idx |-> idx,
              conn |-> conn,
              to_remove |-> to_remove, connections |-> connections,
              round |-> round, ticks |-> ticks, emitted |-> emitted,
              targets |-> targets, got |-> got, failed |-> failed]

SetLoopState(st) ==
    /\ game_state' = st.game_state
    /\ multiplier' = st.multiplier
    /\ loop_pc' = st.loop_pc
    /\ cont' = st.cont
    /\ data' = st.data
    /\ idx' = st.idx
    /\ conn' = st.conn
    /\ to_remove' = st.to_remove
    /\ connections' = st.connections
    /\ round' = st.round
    /\ ticks' = st.ticks
    /\ emitted' = st.emitted
    /\ targets' = st.targets
    /\ got' = st.got
    /\ failed' = st.failed

\* A countdown that skips a value.
DecrementSkips(t) == t - 2

\* game_state['time_left'] -= 1
Decrement(t) == t - 1

\* A break test that has no ceiling.
BreakTestNoCeiling(crash, m) == crash

\* `random.random() < 0.01 or multiplier > 100`
BreakTest(crash, m) == crash \/ m > Ceiling

\* The phase of the round, from game_loop's position: Countdown from the loop
\* top to the end of the countdown-0 fan-out, Flight from `is_running = True`
\* to the break, Crash from the "end" fan-out to the end of the 2 s sleep.
PhaseOf(pc, ev) ==
    CASE pc = "cd_sleep" -> "Countdown"
      [] pc = "tick_sleep" -> "Flight"
      [] pc \in {"reset", "crash_sleep"} -> "Crash"
      [] OTHER -> (CASE ev.type = "countdown" -> "Countdown"
                     [] ev.type \in {"start", "multiplier"} -> "Flight"
                     [] OTHER -> "Crash")
Phase == PhaseOf(loop_pc, data)

RECURSIVE RunFrom(_, _, _)
\* `await notify_all(ev)` followed by the code at `after`: with no connection
\* the for loop body never runs and no await is reached.
Notify(st, ev, after, crash) ==
    LET st1 == [st EXCEPT !.emitted = Append(@, ev), !.data = ev,
                          !.to_remove = <<>>, !.targets = st.connections,
                          !.got = [s \in Sessions |-> 0], !.failed = {}]
    IN IF st.connections = <<>>
       THEN RunFrom(after, st1, crash)
       ELSE [st1 EXCEPT !.loop_pc = "send", !.idx = 1,
                        !.conn = st.connections[1], !.cont = after]

\* game_loop from the statement `label` on, up to its next await.
RunFrom(label, st, crash) ==
    CASE label = "top" ->
           Notify([st EXCEPT !.game_state.time_left = CountdownFrom,
                             !.game_state.is_running = FALSE,
                             !.round = @ + 1, !.ticks = 0, !.emitted = <<>>],
                  Event("countdown", CountdownFrom), "cd_loop", crash)
      [] label = "cd_loop" ->
           IF st.game_state.time_left > 0
           THEN [st EXCEPT !.loop_pc = "cd_sleep"]
           ELSE Notify([st EXCEPT !.game_state.is_running = TRUE,
                                  !.multiplier = StartMultiplier],
                       Event("start", 0), "tick_loop", crash)
      [] label = "tick_loop" -> [st EXCEPT !.loop_pc = "tick_sleep"]
      [] label = "brk" ->
           IF BreakTest(crash, st.multiplier)
           THEN Notify(st, Event("end", st.multiplier), "reset", crash)
           ELSE [st EXCEPT !.loop_pc = "tick_sleep"]
      [] OTHER -> [st EXCEPT !.loop_pc = "reset"]

\* An increment drawn from a range that reaches below zero.
IncrementsSigned == {-MaxIncrement, MaxIncrement}

\* round(random.uniform(0.01, 0.05), 2), in hundredths; the draws explored are
\* the two ends of the range.
Increments == {MinIncrement, MaxIncrement}

\* The random draw of the break test, `random.random() < 0.01`, in an
\* environment that lets a Flight go on for cap ticks at most: from the
\* cap-th tick on the draw says crash.
Draws(n, cap) == IF n >= cap THEN {TRUE} ELSE BOOLEAN

\* `await asyncio.sleep(1)` returns: one countdown tick.
CountdownTick ==
    /\ loop_pc = "cd_sleep"
    /\ LET st == [LoopState EXCEPT !.game_state.time_left = Decrement(@)]
       IN SetLoopState(Notify(st, Event("countdown", st.game_state.time_left),
                              "cd_loop", FALSE))
    /\ UNCHANGED <<sess, users, bets, req, nwagers, topups>>

\* `await asyncio.sleep(0.1)` returns: one Flight tick.
FlightTick(cap) ==
    /\ loop_pc = "tick_sleep"
    /\ \E inc \in Increments, crash \in Draws(ticks + 1, cap) :
         LET m == multiplier + inc
             st == [LoopState EXCEPT !.multiplier = m,
                                     !.game_state.multiplier = m,
                                     !.ticks = @ + 1]
         IN SetLoopState(Notify(st, Event("multiplier", m), "brk", crash))
    /\ UNCHANGED <<sess, users, bets, req, nwagers, topups>>

\* What a send_json on session s can do: succeed, raise WebSocketDisconnect,
\* or raise another exception (a RuntimeError on a closed socket).  A session
\* whose handler already failed its snapshot send has a closed socket.
SendOutcomes(s) ==
    IF sess[s] = "broken" THEN {"disconnect", "error"}
    ELSE {"ok", "disconnect", "error"}

\* `await conn.send_json(data)` in notify_all returns or raises, and the for
\* loop goes on to the next element of the live list, or ends.  The frames of
\* one socket leave in the order of the send_json calls on it: an event that
\* got through to a socket whose snapshot send is still pending ("snap") went
\* out behind the snapshot, which has then been delivered ("snapd").
Send(outs, cap) ==
    /\ loop_pc = "send"
    /\ \E out \in SendOutcomes(conn) \cap outs, crash \in Draws(ticks, cap) :
         LET s == conn
             st1 == CASE out = "ok" -> [LoopState EXCEPT !.got[s] = @ + 1]
                      [] out = "disconnect" ->
                           [LoopState EXCEPT !.to_remove = Append(@, s),
                                             !.failed = @ \cup {s}]
                      [] OTHER -> [LoopState EXCEPT !.failed = @ \cup {s}]
             gone == {to_remove[i] : i \in 1..Len(to_remove)}
                       \cup (IF out = "disconnect" THEN {s} ELSE {})
             st2 == [st1 EXCEPT !.connections =
                        SelectSeq(connections, LAMBDA c : c \notin gone)]
         IN /\ SetLoopState(
              CASE out = "error" -> [st1 EXCEPT !.loop_pc = "dead"]
                [] idx < Len(connections) ->
                     [st1 EXCEPT !.idx = @ + 1, !.conn = connections[idx + 1]]
                [] OTHER -> RunFrom(cont, [st2 EXCEPT !.conn = NoConn], crash))
            /\ sess' = IF out = "ok" /\ sess[s] = "snap"
                       THEN [sess EXCEPT ![s] = "snapd"] ELSE sess
    /\ UNCHANGED <<users, bets, req, nwagers, topups>>

\* A reset that deletes the settled rows only.
DeleteSettled(bs) == SelectSeq(bs, LAMBDA b : b.cashed_out = 1)

\* DELETE FROM bets
DeleteAll(bs) == <<>>

\* `await reset_bets()`: DELETE FROM bets, commit.
ResetBets ==
    /\ loop_pc = "reset"
    /\ bets' = DeleteAll(bets)
    /\ loop_pc' = "crash_sleep"
    /\ UNCHANGED <<game_state, multiplier, cont, data, idx, conn, to_remove,
                   connections, round, ticks, emitted, targets, got, failed,
                   sess, users, req, nwagers, topups>>

\* `await asyncio.sleep(2)` returns: the next round begins.
NextRound ==
    /\ loop_pc = "crash_sleep"
    /\ round < MaxRounds
    /\ SetLoopState(RunFrom("top", LoopState, FALSE))
    /\ UNCHANGED <<sess, users, bets, req, nwagers, topups>>

\* -------------------------------------------------------------- websocket
\* The message websocket_endpoint builds from game_state for a new viewer.
Snapshot(gs) == [type |-> "state", is_running |-> gs.is_running,
                 multiplier |-> gs.multiplier, time |-> gs.time_left]

\* A registration that puts the new socket at the head of the list.
RegisterFirst(conns, s) == <<s>> \o conns

\* connections.append(ws)
Register(conns, s) == Append(conns, s)

\* `await ws.accept()` returns: the handler registers the socket and starts
\* sending Snapshot(game_state), the message it built in this same step.
WsConnect(s) ==
    /\ sess[s] = "idle"
    /\ connections' = Register(connections, s)
    /\ sess' = [sess EXCEPT ![s] = "snap"]
    /\ UNCHANGED <<game_state, multiplier, loop_pc, cont, data, idx, conn, to_remove,
                   users, bets, req, round, ticks, emitted, targets,
                   got, failed, nwagers, topups>>

\* The snapshot send returns (the handler goes to sleep for good) or raises;
\* it returns when a later frame of the socket has already been delivered.
\* When it raises the handler ends
\* (nothing removes the socket from `connections`).  The
\* handler's `except WebSocketDisconnect: connections.remove(ws)` guards only
\* `asyncio.sleep`, which never raises it, so that removal never runs.
WsSnapshotSent(s, outs) ==
    /\ sess[s] \in {"snap", "snapd"}
    /\ \E out \in (IF sess[s] = "snapd" THEN {"ok"} ELSE outs) :
         sess' = [sess EXCEPT ![s] = IF out = "ok" THEN "open" ELSE "broken"]
    /\ UNCHANGED <<game_state, multiplier, loop_pc, cont, data, idx, conn, to_remove,
                   connections, users, bets, req, round, ticks, emitted,
                   targets, got, failed, nwagers, topups>>

\* ----------------------------------------------------------------- ledger
\* A balance is kept in hundredths; `amount` columns and request amounts are
\* whole units.
Units(a) == a * 100

\* get_balance's SELECT: the balance of the row, NoRow when there is none.
SelectBalance(us, u) == us[u]

\* An upsert that overwrites the balance of an existing row.
UpdateBalanceOverwrites(us, u, a) == [us EXCEPT ![u] = Units(a)]

\* update_balance: INSERT ... ON CONFLICT DO UPDATE SET balance = balance + ?
UpdateBalance(us, u, a) ==
    [us EXCEPT ![u] = IF @ = NoRow THEN Units(a) ELSE @ + Units(a)]

\* UPDATE users SET balance = balance + ? WHERE telegram_id = ?
\* (no row, no effect); d is in hundredths.
AddToBalance(us, u, d) == [us EXCEPT ![u] = IF @ = NoRow THEN @ ELSE @ + d]

\* place_bet's INSERT INTO bets (telegram_id, amount): cashed_out and
\* multiplier take their column defaults.  h is history kept with the row:
\* the wager's id, the round whose phase test admitted it and the phase in
\* which it was inserted.
InsertBet(bs, u, a, h) ==
    Append(bs, [telegram_id |-> u, amount |-> a, cashed_out |-> 0,
                multiplier |-> StartMultiplier, wid |-> h.wid,
                round |-> h.round, placed |-> h.placed])

\* cashout's SELECT ... WHERE telegram_id = ? AND cashed_out = 0, fetchone():
\* the position of the first such row, 0 when there is none.
OpenRows(bs, u) ==
    {i \in 1..Len(bs) : bs[i].telegram_id = u /\ bs[i].cashed_out = 0}
SelectOpen(bs, u) ==
    IF OpenRows(bs, u) = {} THEN 0
    ELSE CHOOSE i \in OpenRows(bs, u) : \A j \in OpenRows(bs, u) : i <= j

\* win = row[0] * multiplier, in hundredths
Win(a, m) == a * m

\* A settlement that marks only the row it paid.
MarkSelectedRow(bs, u, m) ==
    [i \in 1..Len(bs) |->
        IF i = SelectOpen(bs, u)
        THEN [bs[i] EXCEPT !.cashed_out = 1, !.multiplier = m]
        ELSE bs[i]]

\* UPDATE bets SET cashed_out = 1, multiplier = ? WHERE telegram_id = ?
MarkCashedOut(bs, u, m) ==
    [i \in 1..Len(bs) |->
        IF bs[i].telegram_id = u
        THEN [bs[i] EXCEPT !.cashed_out = 1, !.multiplier = m]
        ELSE bs[i]]

\* cashout(telegram_id, multiplier) run with nothing interleaved.
Cashout(us, bs, u, m) ==
    LET i == SelectOpen(bs, u)
    IN IF i = 0 THEN [win |-> 0, users |-> us, bets |-> bs]
       ELSE [win |-> Win(bs[i].amount, m),
             users |-> AddToBalance(us, u, Win(bs[i].amount, m)),
             bets |-> MarkCashedOut(bs, u, m)]

\* ------------------------------------------------------------------- API
Idle == [pc |-> "idle", user |-> "", amount |-> 0, mult |-> 0, win |-> 0,
         current |-> 0, gphase |-> "", ground |-> 0,
         wid |-> 0, wround |-> 0, wplaced |-> ""]

\* /bet: `not game_state['is_running'] and game_state['time_left'] <= 0`
BetAdmitted(gs) == ~gs.is_running /\ gs.time_left <= 0

\* /bet: `bal >= data.amount`
Sufficient(bal, a) == bal >= Units(a)

\* /cashout: `game_state['is_running']`
CashoutAdmitted(gs) == gs.is_running

\* The status a /bet is answered with, from what its handler read.
BetStatus(gs, bal, a) ==
    IF ~BetAdmitted(gs) THEN "betting closed"
    ELSE IF Sufficient(bal, a) THEN "bet placed" ELSE "insufficient funds"

\* The status a /cashout is answered with.
CashoutStatus(gs) == IF CashoutAdmitted(gs) THEN "cashed out" ELSE "not running"

\* A new request is served by the first free handler slot.
FreeSlot(r) == req[r].pc = "idle" /\ \A q \in Reqs : req[q].pc = "idle" => ~(q < r)

InFlightBets == Cardinality({r \in Reqs : req[r].pc \in {"bet_select", "bet_newuser", "bet_place"}})

\* POST /topup_balance: one write transaction.
Topup(u, a) ==
    /\ topups < MaxTopups
    /\ users' = UpdateBalance(users, u, a)
    /\ topups' = topups + 1
    /\ UNCHANGED <<loopVars, sess, bets, req, nwagers>>

\* POST /bet passes the phase test and awaits get_balance.  (A /bet that
\* fails the test is answered "betting closed" and changes nothing.)
BetGate(r, u, a) ==
    /\ FreeSlot(r)
    /\ nwagers + InFlightBets < MaxWagers
    /\ BetAdmitted(game_state)
    /\ req' = [req EXCEPT ![r] = [Idle EXCEPT !.pc = "bet_select", !.user = u,
                                               !.amount = a, !.ground = round]]
    /\ UNCHANGED <<loopVars, sess, users, bets, nwagers, topups>>

\* After get_balance returned bal: place the bet, or "insufficient funds".
AfterBalance(rq, bal) ==
    IF Sufficient(bal, rq.amount) THEN [rq EXCEPT !.pc = "bet_place"] ELSE Idle

\* get_balance's SELECT.
BetSelect(r) ==
    /\ req[r].pc = "bet_select"
    /\ LET bal == SelectBalance(users, req[r].user)
       IN req' = [req EXCEPT ![r] = IF bal = NoRow
                                    THEN [@ EXCEPT !.pc = "bet_newuser"]
                                    ELSE AfterBalance(@, bal)]
    /\ UNCHANGED <<loopVars, sess, users, bets, nwagers, topups>>

\* get_balance's INSERT INTO users of a fresh account (balance 0); the
\* primary key makes it fail when the row was created meanwhile, and the
\* request then ends in an error.
BetNewUser(r) ==
    /\ req[r].pc = "bet_newuser"
    /\ IF users[req[r].user] = NoRow
       THEN /\ users' = [users EXCEPT ![req[r].user] = 0]
            /\ req' = [req EXCEPT ![r] = AfterBalance(@, 0)]
       ELSE /\ req' = [req EXCEPT ![r] = Idle]
            /\ UNCHANGED users
    /\ UNCHANGED <<loopVars, sess, bets, nwagers, topups>>

\* place_bet: INSERT INTO bets, UPDATE users, commit.
BetPlace(r) ==
    /\ req[r].pc = "bet_place"
    /\ bets' = InsertBet(bets, req[r].user, req[r].amount,
                         [wid |-> nwagers + 1, round |-> req[r].ground,
                          placed |-> Phase])
    /\ users' = AddToBalance(users, req[r].user, -Units(req[r].amount))
    /\ nwagers' = nwagers + 1
    /\ req' = [req EXCEPT ![r] = Idle]
    /\ UNCHANGED <<loopVars, sess, topups>>

\* POST /cashout passes the phase test; the argument game_state['multiplier']
\* is read here, before cashout's first await.  current, gphase and ground are
\* history: the round's own multiplier, phase and number at this moment;
\* wid, wround and wplaced are the history of the row the SELECT returned.
CashoutGate(r, u) ==
    /\ FreeSlot(r)
    /\ CashoutAdmitted(game_state)
    /\ req' = [req EXCEPT ![r] = [Idle EXCEPT !.pc = "co_select", !.user = u,
                                               !.mult = game_state.multiplier,
                                               !.current = multiplier,
                                               !.gphase = Phase,
                                               !.ground = round]]
    /\ UNCHANGED <<loopVars, sess, users, bets, nwagers, topups>>

\* cashout's SELECT and fetchone: no row, `return 0`.
CashoutSelect(r) ==
    /\ req[r].pc = "co_select"
    /\ LET i == SelectOpen(bets, req[r].user)
       IN req' = [req EXCEPT ![r] =
                    IF i = 0 THEN Idle
                    ELSE [@ EXCEPT !.pc = "co_write", !.amount = bets[i].amount,
                                   !.win = Win(bets[i].amount, req[r].mult),
                                   !.wid = bets[i].wid,
                                   !.wround = bets[i].round,
                                   !.wplaced = bets[i].placed]]
    /\ UNCHANGED <<loopVars, sess, users, bets, nwagers, topups>>

\* cashout's two UPDATEs and commit.
CashoutWrite(r) ==
    /\ req[r].pc = "co_write"
    /\ users' = AddToBalance(users, req[r].user, req[r].win)
    /\ bets' = MarkCashedOut(bets, req[r].user, req[r].mult)
    /\ req' = [req EXCEPT ![r] = Idle]
    /\ UNCHANGED <<loopVars, sess, nwagers, topups>>

\* ------------------------------------------------- requests one at a time
\* get_balance run with nothing interleaved: the balance read, and the
\* users table with the row created when it was missing.
GetBalance(us, u) ==
    IF us[u] = NoRow THEN [bal |-> 0, users |-> [us EXCEPT ![u] = 0]]
    ELSE [bal |-> us[u], users |-> us]

\* bet()'s body behind the phase test, run with nothing interleaved:
\* get_balance, the funds test, place_bet.
OpenWager(us, bs, u, a, h) ==
    LET g == GetBalance(us, u)
    IN IF Sufficient(g.bal, a)
       THEN [status |-> "bet placed",
             users |-> AddToBalance(g.users, u, -Units(a)),
             bets |-> InsertBet(bs, u, a, h)]
       ELSE [status |-> "insufficient funds", users |-> g.users, bets |-> bs]

\* POST /bet served from request to response with no other request between.
SeqBet(u, a) ==
    /\ \A r \in Reqs : req[r].pc = "idle"
    /\ nwagers < MaxWagers
    /\ BetAdmitted(game_state)
    /\ LET w == OpenWager(users, bets, u, a, [wid |-> nwagers + 1,
                                               round |-> round,
                                               placed |-> Phase])
       IN /\ users' = w.users
          /\ bets' = w.bets
          /\ nwagers' = IF w.status = "bet placed" THEN nwagers + 1 ELSE nwagers
    /\ UNCHANGED <<loopVars, sess, req, topups>>

\* POST /cashout served from request to response with no other request
\* between.
SeqCashout(u) ==
    /\ \A r \in Reqs : req[r].pc = "idle"
    /\ CashoutAdmitted(game_state)
    /\ LET c == Cashout(users, bets, u, game_state.multiplier)
       IN /\ users' = c.users
          /\ bets' = c.bets
    /\ UNCHANGED <<loopVars, sess, req, nwagers, topups>>

\* ------------------------------------------------------------------ spec
\* The module-level state, with game_loop's task created by startup() and not
\* yet run.
Loaded ==
    [game_state |-> [time_left |-> CountdownFrom, multiplier |-> StartMultiplier,
                     is_running |-> FALSE],
     multiplier |-> StartMultiplier, loop_pc |-> "boot", cont |-> "none",
     data |-> NoEvent, idx |-> 0, conn |-> NoConn, to_remove |-> <<>>,
     connections |-> <<>>,
     round |-> 0, ticks |-> 0, emitted |-> <<>>, targets |-> <<>>,
     got |-> [s \in Sessions |-> 0], failed |-> {}]

\* startup() awaits init_db and creates game_loop's task; the task's first
\* step (to its first sleep, `connections` being empty) runs before the server
\* serves any request.
Init ==
    /\ LET st == RunFrom("top", Loaded, FALSE)
       IN /\ game_state = st.game_state
          /\ multiplier = st.multiplier
          /\ loop_pc = st.loop_pc
          /\ cont = st.cont
          /\ data = st.data
          /\ idx = st.idx
          /\ conn = st.conn
          /\ to_remove = st.to_remove
          /\ connections = st.connections
          /\ round = st.round
          /\ ticks = st.ticks
          /\ emitted = st.emitted
          /\ targets = st.targets
          /\ got = st.got
          /\ failed = st.failed
    /\ sess = [s \in Sessions |-> "idle"]
    /\ users = [u \in Users |-> NoRow]
    /\ bets = <<>>
    /\ req = [r \in Reqs |-> Idle]
    /\ nwagers = 0
    /\ topups = 0

\* The outcomes of a send the environment can produce: any, or, with viewers
\* whose transport never fails, success only.
AnyOutcome == {"ok", "disconnect", "error"}
Healthy == {"ok"}

LoopStep(outs, cap) ==
    \/ CountdownTick
    \/ FlightTick(cap)
    \/ Send(outs, cap)
    \/ ResetBets
    \/ NextRound

LedgerStep ==
    \/ \E u \in Users, a \in TopupAmounts : Topup(u, a)
    \/ \E r \in Reqs, u \in Users, a \in BetAmounts : BetGate(r, u, a)
    \/ \E r \in Reqs : BetSelect(r)
    \/ \E r \in Reqs : BetNewUser(r)
    \/ \E r \in Reqs : BetPlace(r)
    \/ \E r \in Reqs, u \in Users : CashoutGate(r, u)
    \/ \E r \in Reqs : CashoutSelect(r)
    \/ \E r \in Reqs : CashoutWrite(r)

\* The round loop and the viewers, with no HTTP request.
NextHub ==
    \/ LoopStep(AnyOutcome, MaxTicks)
    \/ \E s \in Sessions : WsConnect(s)
    \/ \E s \in Sessions : WsSnapshotSent(s, AnyOutcome)

\* The round loop, one viewer whose transport never fails, and the HTTP
\* requests, interleaved at every await.
NextLedger ==
    \/ LoopStep(Healthy, MaxTicks)
    \/ \E s \in LedgerSessions : WsConnect(s)
    \/ \E s \in LedgerSessions : WsSnapshotSent(s, Healthy)
    \/ LedgerStep

\* The round loop, one viewer and HTTP requests served one after another.
NextSeq ==
    \/ LoopStep(AnyOutcome, MaxTicks)
    \/ \E s \in LedgerSessions : WsConnect(s)
    \/ \E s \in LedgerSessions : WsSnapshotSent(s, AnyOutcome)
    \/ \E u \in Users, a \in TopupAmounts : Topup(u, a)
    \/ \E u \in Users, a \in BetAmounts : SeqBet(u, a)
    \/ \E u \in Users : SeqCashout(u)

\* A Flight that has come close to the ceiling (on a server that never had
\* a viewer): the loop sleeps before its next tick.  Its history starts
\* here: `emitted` holds the latest event only and `ticks` counts from 0.
NearCeiling == (Ceiling - MaxIncrement)..Ceiling

InitNearCeiling ==
    /\ \E m \in NearCeiling :
         /\ game_state = [time_left |-> 0, multiplier |-> m, is_running |-> TRUE]
         /\ multiplier = m
         /\ data = Event("multiplier", m)
         /\ emitted = <<Event("multiplier", m)>>
    /\ loop_pc = "tick_sleep"
    /\ cont = "none"
    /\ idx = 0
    /\ conn = NoConn
    /\ to_remove = <<>>
    /\ connections = <<>>
    /\ round = 1
    /\ ticks = 0
    /\ targets = <<>>
    /\ got = [s \in Sessions |-> 0]
    /\ failed = {}
    /\ sess = [s \in Sessions |-> "idle"]
    /\ users = [u \in Users |-> NoRow]
    /\ bets = <<>>
    /\ req = [r \in Reqs |-> Idle]
    /\ nwagers = 0
    /\ topups = 0

\* The round loop with Flights of up to MaxFlightTicks ticks, begun at the
\* server's start or followed from a Flight near the ceiling, and one viewer.
InitFlight == Init \/ InitNearCeiling

NextFlight ==
    \/ LoopStep(AnyOutcome, MaxFlightTicks)
    \/ \E s \in LedgerSessions : WsConnect(s)
    \/ \E s \in LedgerSessions : WsSnapshotSent(s, AnyOutcome)

\* As NextSeq, with /bet requests whose `amount`, a float of any sign in
\* BalanceAction, may be zero or negative.
NextAnyAmount ==
    \/ LoopStep(Healthy, MaxTicks)
    \/ \E s \in LedgerSessions : WsConnect(s)
    \/ \E s \in LedgerSessions : WsSnapshotSent(s, Healthy)
    \/ \E u \in Users, a \in TopupAmounts : Topup(u, a)
    \/ \E u \in Users, a \in AnyBetAmounts : SeqBet(u, a)
    \/ \E u \in Users : SeqCashout(u)

\* As NextLedger, with stakes of which an account topped up once affords
\* one and not two.
NextRace ==
    \/ LoopStep(Healthy, MaxTicks)
    \/ \E s \in LedgerSessions : WsConnect(s)
    \/ \E s \in LedgerSessions : WsSnapshotSent(s, Healthy)
    \/ \E u \in Users, a \in TopupAmounts : Topup(u, a)
    \/ \E r \in Reqs, u \in Users, a \in RaceBetAmounts : BetGate(r, u, a)
    \/ \E r \in Reqs : BetSelect(r)
    \/ \E r \in Reqs : BetNewUser(r)
    \/ \E r \in Reqs : BetPlace(r)
    \/ \E r \in Reqs, u \in Users : CashoutGate(r, u)
    \/ \E r \in Reqs : CashoutSelect(r)
    \/ \E r \in Reqs : CashoutWrite(r)

SpecHub == Init /\ [][NextHub]_vars
SpecRace == Init /\ [][NextRace]_vars
SpecAnyAmount == Init /\ [][NextAnyAmount]_vars
SpecFlight == InitFlight /\ [][NextFlight]_vars
SpecLedger == Init /\ [][NextLedger]_vars
SpecSeq == Init /\ [][NextSeq]_vars
\* ================================================================ claims
\* The step in which handler r commits cashout's transaction: the credit.
Credit(r) == req[r].pc = "co_write" /\ req'[r].pc = "idle"

\* The credit of handler r changed the balance of its user.
Credited(r) == users'[req[r].user] # users[req[r].user]

\* C1: under any interleaving of /cashout requests and the Crash-time reset,
\* a wager is settled at most once: every credit pays a wager whose record is
\* still there and still unsettled (the credit itself marks it settled).
C1_AtMostOneSettlement ==
    [][\A r \in Reqs :
         (Credit(r) /\ Credited(r))
            => \E i \in 1..Len(bets) :
                  bets[i].wid = req[r].wid /\ bets[i].cashed_out = 0]_vars

\* C2: the bets table never holds two rows with cashed_out = 0 for the same
\* user.
C2_OneOpenWagerPerUser == \A u \in Users : Cardinality(OpenRows(bets, u)) <= 1

\* C3: a /cashout is admitted only while the round phase is Flight: outside
\* Flight it is answered "not running", and every handler that got past the
\* phase test did so in Flight.
C3_CashoutOnlyInFlight ==
    /\ Phase # "Flight" => CashoutStatus(game_state) = "not running"
    /\ \A r \in Reqs :
         req[r].pc \in {"co_select", "co_write"} => req[r].gphase = "Flight"

\* C4: the /bet admission rule is the test 'phase is Countdown': a /bet with
\* sufficient funds is answered "bet placed" at any point of Countdown, and
\* "betting closed" in Flight and Crash.
C4_BetGateIsCountdown ==
    \A u \in Users, a \in BetAmounts :
        /\ (Phase = "Countdown" /\ users[u] # NoRow /\ Sufficient(users[u], a))
              => BetStatus(game_state, users[u], a) = "bet placed"
        /\ Phase # "Countdown"
              => BetStatus(game_state, users[u], a) = "betting closed"

\* C5: a successful cash-out credits the stake times the multiplier of the
\* round in progress when the request was made (1.0 before the first Flight
\* tick, then the latest "multiplier" event), never a value of an earlier
\* round.
C5_CashoutCreditsCurrentMultiplier ==
    [][\A r \in Reqs :
         Credit(r) => users'[req[r].user]
                        = users[req[r].user] + Win(req[r].amount, req[r].current)]_vars

\* C6: in every round the events emitted so far are "countdown" 10, 9, .., 0
\* in this order, one per tick, then exactly one "start", then only
\* "multiplier" and "end" events; time_left is the value of the latest
\* countdown event, and Flight begins only after countdown 0.
C6_CountdownThenOneStart ==
    /\ \A i \in 1..Len(emitted) :
         /\ i <= CountdownFrom + 1 => emitted[i] = Event("countdown", CountdownFrom - (i - 1))
         /\ i = CountdownFrom + 2 => emitted[i].type = "start"
         /\ i > CountdownFrom + 2 => emitted[i].type \in {"multiplier", "end"}
    /\ (Phase = "Countdown" /\ emitted # <<>>)
          => /\ Len(emitted) <= CountdownFrom + 1
             /\ game_state.time_left = emitted[Len(emitted)].value
    /\ Phase = "Flight" => Len(emitted) >= CountdownFrom + 2

\* C6 witness: a round has counted down to 0 and emitted its "start".
C6_Witness ==
    /\ Phase = "Flight"
    /\ Len(emitted) = CountdownFrom + 2
    /\ emitted[CountdownFrom + 1] = Event("countdown", 0)

\* C7: a wager that was placed before its round's Crash is credited only by
\* a cash-out made in the Flight of that round: when none was made it stays
\* uncredited, whatever request comes later.
C7_NoCreditAfterCrash ==
    [][\A r \in Reqs :
         (Credit(r) /\ Credited(r) /\ req[r].wplaced # "Crash")
            => (req[r].gphase = "Flight" /\ req[r].ground = req[r].wround)]_vars

\* The multipliers a second, later call of cashout can be given.
LaterMultipliers == {game_state.multiplier, game_state.multiplier + MaxIncrement}

\* C8: cashout called twice in a row for the same user pays the stake times
\* the multiplier on the first call when the user has an open wager, and on
\* the second call returns 0 and leaves balances and wager records as the
\* first call left them.
C8_SettleTwiceIsIdempotent ==
    \A u \in Users, m2 \in LaterMultipliers :
        LET i == SelectOpen(bets, u)
            first == Cashout(users, bets, u, game_state.multiplier)
            second == Cashout(first.users, first.bets, u, m2)
        IN /\ i # 0 => first.win = Win(bets[i].amount, game_state.multiplier)
           /\ second.win = 0
           /\ second.users = first.users
           /\ second.bets = first.bets

\* C8 witness: a user holds two unsettled wagers while cash-outs are
\* admitted, so the first call pays and the second finds nothing to pay.
C8_Witness ==
    \E u \in Users :
        /\ CashoutAdmitted(game_state)
        /\ Cardinality(OpenRows(bets, u)) = 2
        /\ Cashout(users, bets, u, game_state.multiplier).win > 0

\* The sessions registered when the current fan-out began.
Targets == {targets[i] : i \in 1..Len(targets)}
Registered == {connections[i] : i \in 1..Len(connections)}

\* C9: once a fan-out is over, every session whose send failed is out of the
\* registry and every other session registered at its start received the
\* event exactly once.
C9_FailedSendIsPruned ==
    loop_pc # "send" =>
        /\ \A s \in failed : s \notin Registered
        /\ \A s \in Targets \ failed : got[s] = 1
        /\ \A s \in Sessions : got[s] <= 1

\* C10: a viewer that connects in Flight is sent a snapshot with
\* is_running = true and the multiplier of the round in progress.
C10_SnapshotInFlightIsCurrent ==
    [][\A s \in Sessions :
         (sess[s] = "idle" /\ sess'[s] = "snap" /\ Phase = "Flight")
            => /\ Snapshot(game_state).is_running
               /\ Snapshot(game_state).multiplier = multiplier]_vars

\* C11: the first message a registered session receives is the snapshot of
\* its registration: every socket an event is sent to has had its snapshot
\* send called before, and a session that received an event has received the
\* snapshot.  After it the session receives the round's events in emission
\* order: the event being fanned out is always the latest one emitted, it is
\* sent to the socket the iterator stands on, and no session receives it
\* twice.
C11_SnapshotThenEventsInOrder ==
    /\ \A s \in Sessions :
         (s \in Registered \/ conn = s \/ got[s] >= 1) => sess[s] # "idle"
    /\ \A s \in Sessions : got[s] >= 1 => sess[s] \in {"snapd", "open"}
    /\ \A s \in Sessions : got[s] <= 1
    /\ loop_pc = "send" =>
          /\ emitted # <<>>
          /\ data = emitted[Len(emitted)]
          /\ conn = connections[idx]

\* C11 witness: a session registered while a fan-out was under way, behind
\* another one, and was delivered the event while its snapshot send was
\* still pending.
C11_Witness ==
    \E s \in Sessions :
        /\ sess[s] = "snapd"
        /\ got[s] = 1
        /\ s \notin Targets
        /\ Len(connections) = 2

\* C12: within a Flight the loop's multiplier starts from 1.0 and every tick
\* raises it by 1 to 5 hundredths: each "multiplier" event follows the "start"
\* or another "multiplier" event and exceeds the value before it (1.0 after
\* the "start") by an increment in range; the loop's multiplier is the value
\* of the latest tick, and "end" carries it.
C12_MultiplierRisesWithinBounds ==
    /\ \A i \in 2..Len(emitted) :
         LET prev == IF emitted[i - 1].type = "start" THEN StartMultiplier
                     ELSE emitted[i - 1].value
         IN /\ emitted[i].type = "multiplier" =>
                  /\ emitted[i - 1].type \in {"start", "multiplier"}
                  /\ emitted[i].value - prev \in MinIncrement..MaxIncrement
                  /\ emitted[i].value >= prev
            /\ emitted[i].type = "end" =>
                  /\ emitted[i - 1].type = "multiplier"
                  /\ emitted[i].value = prev
    /\ (Phase = "Flight" /\ emitted # <<>>) =>
          multiplier = (IF emitted[Len(emitted)].type = "start" THEN StartMultiplier
                        ELSE emitted[Len(emitted)].value)

\* C12 witness: a Flight that began at 1.0 is past its third tick.
C12_Witness ==
    /\ Len(emitted) >= CountdownFrom + 5
    /\ emitted[CountdownFrom + 2].type = "start"
    /\ emitted[CountdownFrom + 5].type = "multiplier"
    /\ emitted[CountdownFrom + 5].value > emitted[CountdownFrom + 3].value

\* C13: the tick on which the multiplier first exceeds the ceiling is the
\* last of its Flight whatever the random draw: the loop never sleeps for
\* another tick with a multiplier above the ceiling, the event that follows
\* a "multiplier" event above the ceiling is "end", and so the multiplier of a
\* Flight, which every tick raises, stays within one increment of the ceiling.
C13_CeilingEndsFlight ==
    /\ loop_pc = "tick_sleep" => multiplier <= Ceiling
    /\ \A i \in 1..(Len(emitted) - 1) :
         (emitted[i].type = "multiplier" /\ emitted[i].value > Ceiling)
            => emitted[i + 1].type = "end"
    /\ multiplier <= Ceiling + MaxIncrement

\* C13 witness: a tick took the multiplier above the ceiling while the draw
\* was still free to say "no crash", and "end" followed.
C13_Witness ==
    /\ Len(emitted) >= 2
    /\ emitted[Len(emitted)].type = "end"
    /\ emitted[Len(emitted)].value > Ceiling
    /\ ticks < MaxFlightTicks

\* C14: every wager record has amount > 0 (a /bet whose amount is zero or
\* negative creates no wager).
C14_WagerAmountPositive == \A i \in 1..Len(bets) : bets[i].amount > 0

\* The amounts of the round trip: the spec's 100 and 40, and the amounts the
\* requests of the model carry.
RoundTripDeposits == TopupAmounts \cup {100}
RoundTripWagers == BetAmounts \cup {40}
NoHistory == [wid |-> 0, round |-> 0, placed |-> ""]

\* C15: from every ledger state, get_balance after a deposit of a returns
\* the old balance + a, and get_balance after an accepted wager of s returns
\* the old balance - s; for a fresh user a deposit of 100 then reads 100 and
\* an accepted wager of 40 after it reads 60.
C15_LedgerRoundTrip ==
    \A u \in Users :
        LET old == GetBalance(users, u).bal
            fresh == [v \in Users |-> NoRow]
            d100 == UpdateBalance(fresh, u, 100)
            w40 == OpenWager(d100, <<>>, u, 40, NoHistory)
        IN /\ \A a \in RoundTripDeposits :
                GetBalance(UpdateBalance(users, u, a), u).bal = old + Units(a)
           /\ \A s \in RoundTripWagers :
                LET w == OpenWager(users, bets, u, s, NoHistory)
                IN w.status = "bet placed"
                     => /\ GetBalance(w.users, u).bal = old - Units(s)
                        /\ Len(w.bets) = Len(bets) + 1
           /\ GetBalance(d100, u).bal = Units(100)
           /\ w40.status = "bet placed"
           /\ GetBalance(w40.users, u).bal = Units(60)

\* C15 witness: a user has deposited 100 and wagered 30 of it, and can
\* afford the next wager.
C15_Witness ==
    \E u \in Users :
        /\ topups = 1
        /\ Len(bets) = 1
        /\ users[u] = Units(100) - Units(30)
        /\ OpenWager(users, bets, u, 40, NoHistory).status = "bet placed"

\* C16: wagers do not persist across rounds: while a round is in Flight
\* every wager record was admitted by the phase test of that round, and no
\* cash-out pays a record admitted in an earlier round than the one the
\* cash-out was requested in.
C16_NoWagerFromEarlierRound ==
    /\ Phase = "Flight" => \A i \in 1..Len(bets) : bets[i].round = round
    /\ \A r \in Reqs : req[r].pc = "co_write" => req[r].wround >= req[r].ground

\* C17: Countdown entry resets the whole round state: a round begins with
\* time_left = 10, and throughout Countdown the multiplier of game_state,
\* which snapshots and handlers read, is 1.0.
C17_CountdownResetsRoundState ==
    Phase = "Countdown" =>
        /\ game_state.multiplier = StartMultiplier
        /\ Snapshot(game_state).multiplier = StartMultiplier
        /\ Len(emitted) = 1 => game_state.time_left = CountdownFrom

\* C18: reset_bets removes every wager record, settled or not, and leaves
\* every balance as it was; it is the step between a round's "end" fan-out
\* and its 2 s pause, and a new round begins only out of that pause.
C18_ResetClearsWagersOnly ==
    [][/\ (loop_pc = "reset" /\ loop_pc' # "reset")
           => (bets' = <<>> /\ users' = users /\ loop_pc' = "crash_sleep")
       /\ round' # round => loop_pc = "crash_sleep"]_vars

\* C18 witness: a round that had an unsettled wager of a funded user is in
\* its pause, the table empty and the balance still the one the stake left.
C18_Witness ==
    \E u \in Users :
        /\ loop_pc = "crash_sleep"
        /\ round = 1
        /\ nwagers = 1
        /\ bets = <<>>
        /\ users[u] = Units(100) - Units(30)

\* C19: no failed send is visible to the round loop: whatever sends fail,
\* game_loop's task never ends (once it has ended no phase follows another
\* any more).
C19_LoopSurvivesSendFailures == loop_pc # "dead"

\* C20: with positive deposits and stakes, no balance is ever negative,
\* whatever the interleaving of /bet, /cashout and /topup_balance.
C20_BalanceNeverNegative == \A u \in Users : users[u] # NoRow => users[u] >= 0
====
